---- MODULE Spec2Model ----
(***************************************************************************)
(* Model of the Table component (src/src/components/Table/Table.tsx):      *)
(* the view state (search query, id filter, sort, page), the filter/sort   *)
(* effect, the persistence effect (localStorage + URL search parameters),  *)
(* the one-shot fetch, and the pager.                                      *)
(*                                                                         *)
(* Text is a sequence of one-character strings, so that JSON.stringify,    *)
(* JSON.parse, split, parseInt, toLowerCase and includes are computed      *)
(* character by character as the code computes them.                       *)
(***************************************************************************)
EXTENDS Integers, Sequences, FiniteSets, TLC

\* ------------------------------------------------------------------ bounds

\* Number of records of the large fetched list.
NumPosts == 17

\* Number of records of the list that is paged through by the filter/sort
\* effect on its own.
NumPagedPosts == 20

\* Longest id filter text drawn from every text over '1', '0' and '-'.
MaxIdTextLen == 4

\* Largest page the filter/sort effect on its own is run with.
MaxEnginePage == 4

\* ------------------------------------------------------- program constants

itemsPerPage == 8

IdFilterMin == 1

IdFilterMax == 100

StorageKey == "tableState"

\* ------------------------------------------------------------- characters

Quote == "\""

Backslash == "\\"

DigitChars == <<"0", "1", "2", "3", "4", "5", "6", "7", "8", "9">>

IsDigit(c) == \E i \in 1..10 : DigitChars[i] = c

DigitValue(c) == (CHOOSE i \in 1..10 : DigitChars[i] = c) - 1

\* The characters of the model in ascending UTF-16 code unit order; the
\* relational operators of JavaScript compare strings by code unit.
CodeUnitOrder ==
    << " ", Quote, "-", "0", "1", "2", "3", "4", "5", "6", "7", "8", "9", ":",
       "A", "B", "G", "Z", Backslash,
       "a", "b", "d", "e", "h", "l", "m", "p", "q", "t", "x", "y", "z", "{", "}" >>

CodeUnit(c) == CHOOSE i \in 1..Len(CodeUnitOrder) : CodeUnitOrder[i] = c

\* String.prototype.toLowerCase, one character.
LowerChar(c) ==
    CASE c = "A" -> "a"
      [] c = "B" -> "b"
      [] c = "G" -> "g"
      [] c = "Z" -> "z"
      [] OTHER -> c

ToLowerCase(s) == [i \in 1..Len(s) |-> LowerChar(s[i])]

\* String.prototype.includes
Includes(hay, needle) ==
    \E i \in 0..(Len(hay) - Len(needle)) :
        SubSeq(hay, i + 1, i + Len(needle)) = needle

\* a < b on strings: lexicographic by code unit, a proper prefix is smaller.
RECURSIVE StringLess(_, _)
StringLess(a, b) ==
    IF b = <<>> THEN FALSE
    ELSE IF a = <<>> THEN TRUE
    ELSE IF Head(a) = Head(b) THEN StringLess(Tail(a), Tail(b))
    ELSE CodeUnit(Head(a)) < CodeUnit(Head(b))

\* Number.prototype.toString (radix 10) of a non-negative integer.
RECURSIVE NumberToString(_)
NumberToString(n) ==
    IF n < 10 THEN <<DigitChars[n + 1]>>
    ELSE NumberToString(n \div 10) \o <<DigitChars[(n % 10) + 1]>>

\* Math.ceil(a / b) for a >= 0, b > 0.
Ceil(a, b) == (a + b - 1) \div b

\* ------------------------------------------------------------- view state

\* TableState (interface, lines 15-21).  sortField null is the string "null".
SortFields == {"id", "title"}

DefaultState ==
    [searchQuery |-> <<>>, idFilter |-> <<>>, sortField |-> "null",
     sortOrder |-> "asc", page |-> 1]

\* The text of the string-valued enumerations.
EnumText(e) ==
    CASE e = "id" -> <<"i", "d">>
      [] e = "title" -> <<"t", "i", "t", "l", "e">>
      [] e = "asc" -> <<"a", "s", "c">>
      [] e = "desc" -> <<"d", "e", "s", "c">>
      [] OTHER -> <<>>

\* The enumeration value a parsed text stands for ("other" outside the type).
EnumOfText(t) ==
    IF \E e \in {"id", "title", "asc", "desc"} : EnumText(e) = t
    THEN CHOOSE e \in {"id", "title", "asc", "desc"} : EnumText(e) = t
    ELSE "other"

KeySearchQuery == <<"s", "e", "a", "r", "c", "h", "Q", "u", "e", "r", "y">>

KeyIdFilter == <<"i", "d", "F", "i", "l", "t", "e", "r">>

KeySortField == <<"s", "o", "r", "t", "F", "i", "e", "l", "d">>

KeySortOrder == <<"s", "o", "r", "t", "O", "r", "d", "e", "r">>

KeyPage == <<"p", "a", "g", "e">>

\* ------------------------------------------------------------------- JSON

\* EscapeString that leaves the reverse solidus alone.
RECURSIVE EscapeQuoteOnly(_)
EscapeQuoteOnly(s) ==
    IF s = <<>> THEN <<>>
    ELSE (IF Head(s) = Quote THEN <<Backslash, Head(s)>> ELSE <<Head(s)>>)
         \o EscapeQuoteOnly(Tail(s))

\* JSON.stringify of a string: quoted, with the quote and the reverse
\* solidus escaped (the model's alphabet has no control characters).
RECURSIVE EscapeString(_)
EscapeString(s) ==
    IF s = <<>> THEN <<>>
    ELSE (IF Head(s) = Quote \/ Head(s) = Backslash
          THEN <<Backslash, Head(s)>>
          ELSE <<Head(s)>>) \o EscapeString(Tail(s))

QuoteString(s) == <<Quote>> \o EscapeString(s) \o <<Quote>>

Member(key, valueText) == QuoteString(key) \o <<":">> \o valueText

\* JSON.stringify(value) of a TableState: its own properties in insertion
\* order, no white space.
JSONStringify(st) ==
    <<"{">>
    \o Member(KeySearchQuery, QuoteString(st.searchQuery)) \o <<",">>
    \o Member(KeyIdFilter, QuoteString(st.idFilter)) \o <<",">>
    \o Member(KeySortField,
              IF st.sortField = "null" THEN <<"n", "u", "l", "l">>
              ELSE QuoteString(EnumText(st.sortField))) \o <<",">>
    \o Member(KeySortOrder, QuoteString(EnumText(st.sortOrder))) \o <<",">>
    \o Member(KeyPage, NumberToString(st.page))
    \o <<"}">>

\* Parsed JSON values, one record shape for every kind.
JNull == [t |-> "null", s |-> <<>>, n |-> 0, m |-> <<>>]

JStr(s) == [t |-> "str", s |-> s, n |-> 0, m |-> <<>>]

JNum(n) == [t |-> "num", s |-> <<>>, n |-> n, m |-> <<>>]

JObj(m) == [t |-> "obj", s |-> <<>>, n |-> 0, m |-> m]

\* A parse step: ok, the value, and the index of the next unread character.
ParseFail == [ok |-> FALSE, v |-> JNull, next |-> 0]

ParseOk(v, next) == [ok |-> TRUE, v |-> v, next |-> next]

RECURSIVE SkipWs(_, _)
SkipWs(t, i) == IF i <= Len(t) /\ t[i] = " " THEN SkipWs(t, i + 1) ELSE i

\* The characters of a string literal, t[i] being the first after the
\* opening quote.
RECURSIVE ParseStringBody(_, _, _)
ParseStringBody(t, i, acc) ==
    IF i > Len(t) THEN ParseFail
    ELSE IF t[i] = Quote THEN ParseOk(JStr(acc), i + 1)
    ELSE IF t[i] = Backslash
         THEN IF i + 1 <= Len(t) /\ t[i + 1] \in {Quote, Backslash}
              THEN ParseStringBody(t, i + 2, Append(acc, t[i + 1]))
              ELSE ParseFail
    ELSE ParseStringBody(t, i + 1, Append(acc, t[i]))

RECURSIVE ParseDigits(_, _, _)
ParseDigits(t, i, acc) ==
    IF i <= Len(t) /\ IsDigit(t[i])
    THEN ParseDigits(t, i + 1, 10 * acc + DigitValue(t[i]))
    ELSE ParseOk(JNum(acc), i)

\* A JSON integer: no leading zero, no sign in the model's documents.
ParseNumber(t, i) ==
    IF t[i] = "0" /\ i + 1 <= Len(t) /\ IsDigit(t[i + 1]) THEN ParseFail
    ELSE ParseDigits(t, i, 0)

IsLiteralAt(t, i, lit) ==
    i + Len(lit) - 1 <= Len(t) /\ SubSeq(t, i, i + Len(lit) - 1) = lit

RECURSIVE ParseValue(_, _)
RECURSIVE ParseMembers(_, _, _)
ParseValue(t, i0) ==
    LET i == SkipWs(t, i0) IN
    IF i > Len(t) THEN ParseFail
    ELSE IF t[i] = Quote THEN ParseStringBody(t, i + 1, <<>>)
    ELSE IF IsDigit(t[i]) THEN ParseNumber(t, i)
    ELSE IF IsLiteralAt(t, i, <<"n", "u", "l", "l">>) THEN ParseOk(JNull, i + 4)
    ELSE IF t[i] = "{"
         THEN LET j == SkipWs(t, i + 1) IN
              IF j <= Len(t) /\ t[j] = "}" THEN ParseOk(JObj(<<>>), j + 1)
              ELSE ParseMembers(t, j, <<>>)
    ELSE ParseFail

\* The members of an object, t[i0] starting a member's key.
ParseMembers(t, i0, acc) ==
    LET i == SkipWs(t, i0) IN
    IF i > Len(t) \/ t[i] # Quote THEN ParseFail
    ELSE LET k == ParseStringBody(t, i + 1, <<>>) IN
         IF ~k.ok THEN ParseFail
         ELSE LET c == SkipWs(t, k.next) IN
              IF c > Len(t) \/ t[c] # ":" THEN ParseFail
              ELSE LET v == ParseValue(t, c + 1) IN
                   IF ~v.ok THEN ParseFail
                   ELSE LET e == SkipWs(t, v.next)
                            got == Append(acc, [k |-> k.v.s, v |-> v.v])
                        IN IF e > Len(t) THEN ParseFail
                           ELSE IF t[e] = "}" THEN ParseOk(JObj(got), e + 1)
                           ELSE IF t[e] = "," THEN ParseMembers(t, e + 1, got)
                           ELSE ParseFail

\* JSON.parse(text): ok = FALSE stands for the SyntaxError it throws.
JSONParse(t) ==
    LET r == ParseValue(t, 1) IN
    IF r.ok /\ SkipWs(t, r.next) > Len(t) THEN [ok |-> TRUE, v |-> r.v]
    ELSE [ok |-> FALSE, v |-> JNull]

\* obj[key]: the last member of that name, JNull standing for undefined.
Property(obj, key) ==
    LET hits == {i \in 1..Len(obj.m) : obj.m[i].k = key} IN
    IF hits = {} THEN JNull
    ELSE obj.m[CHOOSE i \in hits : \A j \in hits : j <= i].v

\* The parsed object read as a TableState (the cast of line 32).  The stored
\* documents of the model either fail to parse or are objects with the five
\* TableState properties.
AsTableState(obj) ==
    [searchQuery |-> Property(obj, KeySearchQuery).s,
     idFilter |-> Property(obj, KeyIdFilter).s,
     sortField |-> IF Property(obj, KeySortField).t = "null" THEN "null"
                   ELSE EnumOfText(Property(obj, KeySortField).s),
     sortOrder |-> EnumOfText(Property(obj, KeySortOrder).s),
     page |-> Property(obj, KeyPage).n]

\* ----------------------------------------------------------- localStorage

\* localStorage.getItem(key) is null (present = FALSE) or a string.
NoItem == [present |-> FALSE, text |-> <<>>]

Item(text) == [present |-> TRUE, text |-> text]

\* saveToLocalStorage (lines 23-25): the storage after a setItem that does
\* not throw.
saveToLocalStorage(st) == Item(JSONStringify(st))

\* loadFromLocalStorage (lines 27-33): threw = TRUE when JSON.parse throws.
\* A null and an empty stored value are both falsy.
loadFromLocalStorage(store, defaultValue) ==
    IF store.present /\ store.text # <<>>
    THEN LET r == JSONParse(store.text) IN
         IF r.ok THEN [threw |-> FALSE, value |-> AsTableState(r.v)]
         ELSE [threw |-> TRUE, value |-> defaultValue]
    ELSE [threw |-> FALSE, value |-> defaultValue]

\* The object handed to setSearchParams (lines 118-124).
SearchParamsOf(st) ==
    [searchQuery |-> st.searchQuery,
     idFilter |-> st.idFilter,
     sortField |-> IF st.sortField = "null" THEN <<>> ELSE EnumText(st.sortField),
     sortOrder |-> EnumText(st.sortOrder),
     page |-> NumberToString(st.page)]


\* ------------------------------------------------------ filter/sort effect

\* split that separates at the first occurrence of sep only.
SplitAtFirst(s, sep) ==
    LET at == {i \in 1..Len(s) : s[i] = sep} IN
    IF at = {} THEN <<s>>
    ELSE LET i == CHOOSE k \in at : \A j \in at : k <= j IN
         <<SubSeq(s, 1, i - 1), SubSeq(s, i + 1, Len(s))>>

\* String.prototype.split(sep): every occurrence of sep separates.
RECURSIVE Split(_, _)
Split(s, sep) ==
    LET at == {i \in 1..Len(s) : s[i] = sep} IN
    IF at = {} THEN <<s>>
    ELSE LET i == CHOOSE k \in at : \A j \in at : k <= j IN
         <<SubSeq(s, 1, i - 1)>> \o Split(SubSeq(s, i + 1, Len(s)), sep)

\* A JavaScript number that may be NaN.
NaN == [nan |-> TRUE, n |-> 0]

Num(n) == [nan |-> FALSE, n |-> n]

RECURSIVE DigitPrefix(_, _, _)
DigitPrefix(s, i, acc) ==
    IF i <= Len(s) /\ IsDigit(s[i])
    THEN DigitPrefix(s, i + 1, 10 * acc + DigitValue(s[i]))
    ELSE acc

\* parseInt(val, 10): leading white space skipped, an optional sign, then the
\* longest prefix of digits; NaN when there is no digit.
ParseInt(s) ==
    LET i == SkipWs(s, 1)
        signed == i <= Len(s) /\ s[i] \in {"-", "+"}
        j == IF signed THEN i + 1 ELSE i
    IN IF j <= Len(s) /\ IsDigit(s[j])
       THEN Num((IF signed /\ s[i] = "-" THEN -1 ELSE 1) * DigitPrefix(s, j, 0))
       ELSE NaN

\* Clamp without the upper bound (Math.max(1, x)).
ClampBelowOnly(x) ==
    IF x.nan THEN NaN
    ELSE Num(IF x.n < IdFilterMin THEN IdFilterMin ELSE x.n)

\* Math.max(1, Math.min(100, x)); NaN propagates.
Clamp(x) ==
    IF x.nan THEN NaN
    ELSE Num(IF x.n > IdFilterMax THEN IdFilterMax
             ELSE IF x.n < IdFilterMin THEN IdFilterMin ELSE x.n)

\* const [minId, maxId] = idFilter.split("-").map(clamp(parseInt)): the first
\* two elements, a missing one being undefined, for which isNaN is true.
IdBounds(idFilter) ==
    LET parts == Split(idFilter, "-")
        bound(k) == IF k <= Len(parts) THEN Clamp(ParseInt(parts[k])) ELSE NaN
    IN [minId |-> bound(1), maxId |-> bound(2)]

IdRangeActive(idFilter) ==
    ~IdBounds(idFilter).minId.nan /\ ~IdBounds(idFilter).maxId.nan

MatchesSearch(item, query) ==
    \/ Includes(ToLowerCase(item.title), ToLowerCase(query))
    \/ Includes(ToLowerCase(item.body), ToLowerCase(query))

\* InIdRange that puts reversed bounds in order.
InIdRangeOrdered(item, b) ==
    IF b.minId.n <= b.maxId.n
    THEN item.id >= b.minId.n /\ item.id <= b.maxId.n
    ELSE item.id >= b.maxId.n /\ item.id <= b.minId.n

InIdRange(item, b) == item.id >= b.minId.n /\ item.id <= b.maxId.n

\* The comparator of lines 104-110: negative, zero or positive.
Less(x, y, field) ==
    IF field = "id" THEN x.id < y.id ELSE StringLess(x.title, y.title)

Compare(a, b, field, order) ==
    IF Less(a, b, field) THEN (IF order = "asc" THEN -1 ELSE 1)
    ELSE IF Less(b, a, field) THEN (IF order = "asc" THEN 1 ELSE -1)
    ELSE 0

\* Array.prototype.sort is stable: an element goes before the first element
\* it compares strictly less than, after its equals.
RECURSIVE Insert(_, _, _, _)
Insert(sorted, x, field, order) ==
    IF sorted = <<>> THEN <<x>>
    ELSE IF Compare(x, Head(sorted), field, order) < 0 THEN <<x>> \o sorted
    ELSE <<Head(sorted)>> \o Insert(Tail(sorted), x, field, order)

RECURSIVE SortBy(_, _, _)
SortBy(list, field, order) ==
    IF list = <<>> THEN <<>>
    ELSE Insert(SortBy(SubSeq(list, 1, Len(list) - 1), field, order),
                list[Len(list)], field, order)

\* The effect of lines 82-114 on the array d held in `data`, under view state
\* st.  filter() returns a new array; without an active filter `filtered` is
\* the array `data` itself, and sort() sorts that array in place.
\*   data     the contents of the array held in `data` afterwards
\*   filtered the contents of the array handed to setFilteredData
\*   sameRef  whether that array is the array held in `data`
FilterEffect(d, st) ==
    LET textOn == st.searchQuery # <<>>
        f1 == IF textOn
              THEN SelectSeq(d, LAMBDA item : MatchesSearch(item, st.searchQuery))
              ELSE d
        b == IdBounds(st.idFilter)
        rangeOn == ~b.minId.nan /\ ~b.maxId.nan
        f2 == IF rangeOn THEN SelectSeq(f1, LAMBDA item : InIdRange(item, b))
              ELSE f1
        sortOn == st.sortField # "null"
        f3 == IF sortOn THEN SortBy(f2, st.sortField, st.sortOrder) ELSE f2
        same == ~textOn /\ ~rangeOn
    IN [data |-> IF same THEN f3 ELSE d, filtered |-> f3, sameRef |-> same]

\* ------------------------------------------------------------------ render

\* What the component returns (lines 127-257): the loading notice, the error
\* with its retry button, or the table with the rows of the current page and
\* the pager's numbers.
LoadingView == [kind |-> "loading", rows |-> <<>>, page |-> 0, pageCount |-> 0]

ErrorView == [kind |-> "error", rows |-> <<>>, page |-> 0, pageCount |-> 0]

NoView == [kind |-> "none", rows |-> <<>>, page |-> 0, pageCount |-> 0]

\* Array.prototype.slice(from, to), zero-based, clipped to the length.
Slice(list, from, to) ==
    SubSeq(list, from + 1, IF to > Len(list) THEN Len(list) ELSE to)

\* currentData that starts the slice at page * itemsPerPage.
currentDataFromPage(fd, st) ==
    Slice(fd, st.page * itemsPerPage, (st.page + 1) * itemsPerPage)

currentData(fd, st) ==
    Slice(fd, (st.page - 1) * itemsPerPage, st.page * itemsPerPage)

TableView(fd, st) ==
    [kind |-> "table", rows |-> currentData(fd, st), page |-> st.page,
     pageCount |-> Ceil(Len(fd), itemsPerPage)]


\* ---------------------------------------------------------- intent handlers

\* handleNextPage with the guard off by one (<= for <).
handleNextPageInclusive(st, fd) ==
    IF st.page <= Ceil(Len(fd), itemsPerPage)
    THEN [st EXCEPT !.page = st.page + 1]
    ELSE st

\* handleNextPage (lines 144-148): the next view state; the state itself
\* when the guard fails and setState is not called.
handleNextPage(st, fd) ==
    IF st.page < Ceil(Len(fd), itemsPerPage)
    THEN [st EXCEPT !.page = st.page + 1]
    ELSE st

\* handlePrevPage with the guard off by one (>= for >).
handlePrevPageInclusive(st) ==
    IF st.page >= 1 THEN [st EXCEPT !.page = st.page - 1] ELSE st

\* handlePrevPage (lines 150-154).
handlePrevPage(st) ==
    IF st.page > 1 THEN [st EXCEPT !.page = st.page - 1] ELSE st

\* handleSort that tests the field alone, not the current order.
\* A handleSort that also goes back to the first page.
handleSortResetPage(st, field) ==
    IF st.sortField = field
    THEN [st EXCEPT !.sortOrder = IF st.sortOrder = "asc" THEN "desc" ELSE "asc",
                    !.page = 1]
    ELSE [st EXCEPT !.sortField = field, !.sortOrder = "asc", !.page = 1]

handleSortNoFlipBack(st, field) ==
    [st EXCEPT !.sortField = field,
               !.sortOrder = IF st.sortField = field THEN "desc" ELSE "asc"]

\* handleSort (lines 156-165).
handleSort(st, field) ==
    [st EXCEPT !.sortField = field,
               !.sortOrder = IF st.sortField = field /\ st.sortOrder = "asc"
                             THEN "desc" ELSE "asc"]

\* handleInputChange without the page reset.
handleInputChangeKeepPage(st, field, value) ==
    IF field = "idFilter"
    THEN [st EXCEPT !.idFilter = value]
    ELSE [st EXCEPT !.searchQuery = value]

\* handleInputChange (lines 167-169), field being searchQuery or idFilter.
handleInputChange(st, field, value) ==
    IF field = "idFilter"
    THEN [st EXCEPT !.idFilter = value, !.page = 1]
    ELSE [st EXCEPT !.searchQuery = value, !.page = 1]

\* The onChange of the id filter input (lines 180-185) keeps digits and '-'.
StripIdInput(text) == SelectSeq(text, LAMBDA c : IsDigit(c) \/ c = "-")

\* ------------------------------------------------------------ environment

\* Texts typed into the search input.
SearchInputs == { <<>>, <<"A">>, <<"L", "P">>, <<Quote, Backslash>> }

\* Texts typed into the id filter input, before stripping.
IdFilterInputs ==
    { <<>>, <<"2", "-", "3">>, <<"5", "-">>, <<"0", "-", "9", "x">> }

Post(id, title, body) == [id |-> id, title |-> title, body |-> body]

\* The three records of the small fetched list.
SmallPosts ==
    << Post(1, <<"A", "l", "p", "h", "a">>, <<"x">>),
       Post(2, <<"B", "e", "t", "a">>, <<"y">>),
       Post(3, <<"G", "a", "m", "m", "a">>, <<"z">>) >>

\* A list of NumPosts records as a source may return it: ids descending,
\* titles repeating so that the title sort has ties.
LargePosts ==
    [i \in 1..NumPosts |->
        LET id == NumPosts + 1 - i IN
        Post(id,
             CASE id % 3 = 0 -> <<"b">> [] id % 3 = 1 -> <<"a">> [] OTHER -> <<"B">>,
             <<"x">>)]

\* Bodies the endpoint may answer with.
FetchResults == { <<>>, SmallPosts, LargePosts }

\* The ways the fetch of lines 57-64 fails: fetch() rejects with a TypeError,
\* the response is not ok, or response.json() rejects with a SyntaxError.
\* The message of line 69, transliterated.
NetworkMessage == "Problemy s podklyucheniem k seti. Prover'te internet."

FetchFailures ==
    { [name |-> "TypeError", message |-> "Failed to fetch"],
      [name |-> "Error", message |-> "HTTP Error: 500 Internal Server Error"],
      [name |-> "SyntaxError", message |-> "Unexpected token < in JSON at position 0"] }

\* A catch block that shows the network message for every failure.
ErrorMessageAlwaysNetwork(err) == NetworkMessage

ErrorMessage(err) ==
    IF err.name = "TypeError" THEN NetworkMessage
    ELSE IF err.message # "" THEN err.message
    ELSE "Ne udalos' poluchit' dannye."

\* What localStorage may hold under the key when the page is first opened:
\* nothing, an empty string, or text that is not a JSON document.
InitialStorage ==
    { NoItem,
      Item(<<>>),
      Item(<<"{", "b", "a", "d">>),
      Item(SubSeq(JSONStringify(DefaultState), 1, Len(JSONStringify(DefaultState)) - 1)) }

NoParams ==
    [searchQuery |-> <<>>, idFilter |-> <<>>, sortField |-> <<>>,
     sortOrder |-> <<>>, page |-> <<>>]

\* The query parameters of the location the page is opened with.
InitialParams ==
    { NoParams,
      [searchQuery |-> <<"a">>, idFilter |-> <<"2", "-", "3">>,
       sortField |-> <<"i", "d">>, sortOrder |-> <<"d", "e", "s", "c">>,
       page |-> <<"2">>] }

\* ------------------------------------------------------------------ state

VARIABLES
    pc,            \* "start" (page not loaded), "mounted", "crashed" (an uncaught
                   \* exception unmounted the tree)
    storage,       \* localStorage["tableState"]
    params,        \* the query parameters of the location
    state,         \* useState<TableState> (line 41)
    data,          \* useState<Post[]> data (line 36): contents of the array
    filteredData,  \* useState<Post[]> filteredData (line 37): contents
    aliased,       \* filteredData and data hold the same array object
    loading,       \* line 38
    error,         \* line 39, "" for null
    rendered,      \* what the last committed render shows
    last           \* the last event handled, with the page and the sort of the
                   \* view state it was handled in

vars == <<pc, storage, params, state, data, filteredData, aliased, loading,
          error, rendered, last>>

Ready == pc = "mounted" /\ ~loading /\ error = ""

Event(op, prev) ==
    [op |-> op, page |-> prev.page, sortField |-> prev.sortField,
     sortOrder |-> prev.sortOrder]

Init ==
    /\ pc = "start"
    /\ storage \in InitialStorage
    /\ params \in InitialParams
    /\ state = DefaultState
    /\ data = <<>>
    /\ filteredData = <<>>
    /\ aliased = FALSE
    /\ loading = TRUE
    /\ error = ""
    /\ rendered = NoView
    /\ last = Event("open", DefaultState)

\* The persistence effect (lines 116-125) for view state st.  setItem may
\* throw (quota exceeded, storage denied): nothing catches it, the effect
\* stops before setSearchParams and React unmounts the tree.  Otherwise both
\* sinks are written, and the navigation re-renders the component with view.
Persist(st, written, view) ==
    IF written
    THEN /\ storage' = saveToLocalStorage(st)
         /\ params' = SearchParamsOf(st)
         /\ pc' = "mounted"
         /\ rendered' = view
    ELSE /\ UNCHANGED <<storage, params>>
         /\ pc' = "crashed"
         /\ rendered' = NoView

\* setState(st) from an event handler (st a new object), then React's render
\* and the two effects that depend on state: the filter/sort effect, whose
\* setFilteredData re-renders unless it is handed the array filteredData
\* already holds, and the persistence effect.
Commit(st, written) ==
    LET eff == FilterEffect(data, st) IN
    /\ state' = st
    /\ data' = eff.data
    /\ filteredData' = eff.filtered
    /\ aliased' = eff.sameRef
    /\ Persist(st, written, TableView(eff.filtered, st))
    /\ UNCHANGED <<loading, error>>

\* An initial view state that takes the two text filters from the query
\* parameters of the location.
InitialStateFromParams(store, query) ==
    LET r == loadFromLocalStorage(store, DefaultState) IN
    [threw |-> r.threw,
     value |-> IF r.threw THEN r.value
               ELSE [r.value EXCEPT !.searchQuery = query.searchQuery,
                                    !.idFilter = query.idFilter]]

\* The initial view state (lines 40-49): useSearchParams' first element, the
\* query parameters of the location, is not bound (line 40); the initializer
\* of useState reads localStorage only.
InitialState(store, query) == loadFromLocalStorage(store, DefaultState)

\* The component mounts (lines 35-49 and the three effects): the view state
\* is read from localStorage, JSON.parse throwing out of the render; the
\* fetch starts; the filter effect runs on the empty data; the view state
\* is persisted.
Mount ==
    /\ pc = "start"
    /\ LET r == InitialState(storage, params) IN
       IF r.threw
       THEN /\ pc' = "crashed"
            /\ rendered' = NoView
            /\ last' = Event("mount", state)
            /\ UNCHANGED <<storage, params, state, data, filteredData, aliased,
                           loading, error>>
       ELSE \E written \in BOOLEAN :
            LET eff == FilterEffect(<<>>, r.value) IN
            /\ state' = r.value
            /\ data' = eff.data
            /\ filteredData' = eff.filtered
            /\ aliased' = eff.sameRef
            /\ loading' = TRUE
            /\ error' = ""
            /\ Persist(r.value, written, LoadingView)
            /\ last' = Event("mount", r.value)

\* The fetch resolves with a record list (lines 64-66, 74): data and
\* filteredData hold the same array and are rendered; then the filter effect
\* runs on the new data.  When it hands setFilteredData that same array
\* (sorted in place or not) no render follows.
FetchSuccess ==
    /\ pc = "mounted" /\ loading
    /\ \E result \in FetchResults :
       LET eff == FilterEffect(result, state) IN
       /\ data' = eff.data
       /\ filteredData' = eff.filtered
       /\ aliased' = eff.sameRef
       /\ rendered' = IF eff.sameRef THEN TableView(result, state)
                      ELSE TableView(eff.filtered, state)
    /\ loading' = FALSE
    /\ error' = ""
    /\ last' = Event("fetchSuccess", state)
    /\ UNCHANGED <<pc, storage, params, state>>

\* The fetch fails (lines 67-75).
FetchFailure ==
    /\ pc = "mounted" /\ loading
    /\ \E err \in FetchFailures : error' = ErrorMessage(err)
    /\ loading' = FALSE
    /\ rendered' = ErrorView
    /\ last' = Event("fetchFailure", state)
    /\ UNCHANGED <<pc, storage, params, state, data, filteredData, aliased>>

\* The search input changes (line 196).
SetSearchQuery ==
    /\ Ready
    /\ \E text \in SearchInputs, written \in BOOLEAN :
       Commit(handleInputChange(state, "searchQuery", text), written)
    /\ last' = Event("setSearchQuery", state)

\* The id filter input changes (lines 180-185).
SetIdFilter ==
    /\ Ready
    /\ \E text \in IdFilterInputs, written \in BOOLEAN :
       Commit(handleInputChange(state, "idFilter", StripIdInput(text)), written)
    /\ last' = Event("setIdFilter", state)

\* A column header is clicked (lines 205, 210).
ToggleSort ==
    /\ Ready
    /\ \E field \in SortFields, written \in BOOLEAN :
       Commit(handleSort(state, field), written)
    /\ last' = Event("toggleSort", state)

\* The next button's handler runs (line 248).  Nothing is set, rendered or
\* persisted when its guard fails.
NextPage ==
    /\ Ready
    /\ LET st == handleNextPage(state, filteredData) IN
       IF st # state
       THEN \E written \in BOOLEAN : Commit(st, written)
       ELSE UNCHANGED <<pc, storage, params, state, data, filteredData, aliased,
                        loading, error, rendered>>
    /\ last' = Event("nextPage", state)

\* The previous button's handler runs (line 240).
PrevPage ==
    /\ Ready
    /\ LET st == handlePrevPage(state) IN
       IF st # state
       THEN \E written \in BOOLEAN : Commit(st, written)
       ELSE UNCHANGED <<pc, storage, params, state, data, filteredData, aliased,
                        loading, error, rendered>>
    /\ last' = Event("prevPage", state)

\* The page is reloaded (the retry button of line 132, or the browser):
\* every useState starts over, localStorage and the location stay.
Reload ==
    /\ pc # "start"
    /\ pc' = "start"
    /\ state' = DefaultState
    /\ data' = <<>>
    /\ filteredData' = <<>>
    /\ aliased' = FALSE
    /\ loading' = TRUE
    /\ error' = ""
    /\ rendered' = NoView
    /\ last' = Event("reload", DefaultState)
    /\ UNCHANGED <<storage, params>>

Next ==
    \/ Mount
    \/ FetchSuccess
    \/ FetchFailure
    \/ SetSearchQuery
    \/ SetIdFilter
    \/ ToggleSort
    \/ NextPage
    \/ PrevPage
    \/ Reload

Spec == Init /\ [][Next]_vars


\* ================================================================ claims

IntentOps == {"setSearchQuery", "setIdFilter", "toggleSort", "nextPage", "prevPage"}

Max(a, b) == IF a > b THEN a ELSE b

\* max(1, ceil(n / pageSize)) for the records of d that pass the filters of
\* st, computed from the raw list and the view state alone.
PageCountOf(d, st) == Max(1, Ceil(Len(FilterEffect(d, st).filtered), itemsPerPage))

\* C1: after setSearchQuery or setIdFilter, whatever the text and whatever
\* the page before, the view state's page is 1.
C1_FilterChangeResetsPage ==
    last.op \in {"setSearchQuery", "setIdFilter"} => state.page = 1

C1_Witness ==
    /\ last.op \in {"setSearchQuery", "setIdFilter"}
    /\ last.page > 1
    /\ state.page = 1

\* C2: nextPage adds exactly 1 to page when page < pageCount of the records
\* filtered by the current view state and changes nothing otherwise; and no
\* intent takes page from within max(1, pageCount) to beyond it.
C2_NextPageGuarded ==
    /\ [](last.op = "nextPage" =>
            state.page = IF last.page < PageCountOf(data, state)
                         THEN last.page + 1 ELSE last.page)
    /\ [][(Ready /\ pc' # "start" /\ state.page <= PageCountOf(data, state))
            => state'.page <= PageCountOf(data', state')]_vars

C2_Witness ==
    /\ last.op = "nextPage"
    /\ last.page = 3
    /\ state.page = 3
    /\ PageCountOf(data, state) = 3

\* C3: prevPage subtracts exactly 1 from page when page > 1 and changes
\* nothing otherwise; page >= 1 in every state.
C3_PrevPageGuarded ==
    /\ last.op = "prevPage" =>
          state.page = IF last.page > 1 THEN last.page - 1 ELSE last.page
    /\ state.page >= 1

C3_Witness ==
    /\ last.op = "prevPage"
    /\ last.page = 1
    /\ state.page = 1

\* C4: the page count shown by the pager is max(1, ceil(filteredCount /
\* pageSize)), hence at least 1 also for an empty filtered set.
C4_PageCountAtLeastOne ==
    rendered.kind = "table" =>
        /\ rendered.pageCount >= 1
        /\ rendered.pageCount = PageCountOf(data, state)

\* C5: after every view state transition both sinks hold the new view
\* state: the stored document is the current view state and the query
\* parameters are its projection, so a reload restores it.
C5_PersistedAfterEveryTransition ==
    last.op \in IntentOps =>
        /\ storage = saveToLocalStorage(state)
        /\ params = SearchParamsOf(state)
        /\ loadFromLocalStorage(storage, DefaultState).value = state

\* C6: load never throws: the component mounts whatever the stored value,
\* with the default view state when nothing or no JSON document is stored.
C6_LoadNeverThrows ==
    last.op = "mount" => ~loadFromLocalStorage(storage, DefaultState).threw

\* C7: round trip: a view state saved and then loaded, with any default, is
\* the same view state in all five fields; and the document in localStorage
\* of a mounted component loads as its current view state.
RoundTrips(s) ==
    \A d \in {DefaultState, [DefaultState EXCEPT !.page = 2, !.sortField = "id"]} :
        loadFromLocalStorage(saveToLocalStorage(s), d) = [threw |-> FALSE, value |-> s]

C7_SaveLoadRoundTrip ==
    /\ \A p \in {state.page, state.page + 9, state.page * 100} :
          RoundTrips([state EXCEPT !.page = p])
    /\ pc = "mounted" =>
          loadFromLocalStorage(storage, DefaultState) = [threw |-> FALSE, value |-> state]

C7_Witness ==
    /\ pc = "mounted"
    /\ state.searchQuery = <<Quote, Backslash>>
    /\ state.idFilter # <<>>
    /\ state.sortField = "title"
    /\ state.sortOrder = "desc"
    /\ storage = saveToLocalStorage(state)

\* C8: a failing write to localStorage is swallowed: the component stays
\* mounted and the query parameters are the projection of the view state.
C8_WriteFailureSwallowed ==
    (last.op \in IntentOps \/ (last.op = "mount"
                                /\ ~loadFromLocalStorage(storage, DefaultState).threw))
        => /\ pc = "mounted"
           /\ params = SearchParamsOf(state)

\* C9: toggleSort on the current sort field flips the order, on another
\* field (or none) sets that field ascending; so two toggles of the field
\* sorted ascending give ascending again, and a toggle of another field
\* gives ascending whatever the order was.
Flip(order) == IF order = "asc" THEN "desc" ELSE "asc"

C9_ToggleSort ==
    /\ last.op = "toggleSort" =>
          /\ state.sortField \in SortFields
          /\ state.sortOrder = IF last.sortField = state.sortField
                               THEN Flip(last.sortOrder) ELSE "asc"
    /\ \A f \in SortFields :
          /\ (state.sortField = f /\ state.sortOrder = "asc") =>
                /\ handleSort(handleSort(state, f), f).sortField = f
                /\ handleSort(handleSort(state, f), f).sortOrder = "asc"
          /\ state.sortField # f =>
                /\ handleSort(state, f).sortField = f
                /\ handleSort(state, f).sortOrder = "asc"

C9_Witness ==
    /\ last.op = "toggleSort"
    /\ last.sortField = state.sortField
    /\ last.sortOrder = "desc"
    /\ state.sortOrder = "asc"

\* C10: no intent changes the contents or the order of the raw record list.
C10_RawListNeverMutated ==
    [][(Ready /\ pc' # "start") => data' = data]_vars


\* ------------------------------------------------- C11: rows vs. computeView

\* The list as the source returned it: the fetch result whose records the
\* array in `data` holds (the results of the model differ in length).
SameRecords(a, b) ==
    /\ Len(a) = Len(b)
    /\ \A i \in 1..Len(a) : \E j \in 1..Len(b) : a[i] = b[j]

AsFetched == CHOOSE r \in FetchResults : SameRecords(r, data)

\* computeView(records, state, pageSize).slice: text filter, id filter,
\* stable sort, page, applied to a record list of its own.
ComputeViewSlice(records, st) == currentData(FilterEffect(records, st).filtered, st)

\* C11: after an intent and the recomputation it triggers, the rows on
\* screen are the slice computeView gives for the records as fetched and
\* the current view state.
C11_RowsAreComputeView ==
    (Ready /\ last.op \in IntentOps) =>
        rendered.rows = ComputeViewSlice(AsFetched, state)


\* ------------------------------------- the filter/sort effect on its own

\* A list of NumPagedPosts records with ascending ids.
PagedPosts ==
    [i \in 1..NumPagedPosts |->
        Post(i,
             CASE i % 3 = 0 -> <<"b">> [] i % 3 = 1 -> <<"a">> [] OTHER -> <<"B">>,
             <<"x">>)]

\* Records at and around the ends of the id range the filter clamps to.
EdgePosts ==
    << Post(100, <<"a">>, <<"x">>),
       Post(1, <<"b">>, <<"x">>),
       Post(5, <<"a">>, <<"x">>),
       Post(10, <<"B">>, <<"x">>),
       Post(99, <<"a">>, <<"x">>),
       Post(150, <<"b">>, <<"x">>) >>

EngineRecords == { SmallPosts, LargePosts, PagedPosts, EdgePosts }

\* Id filter texts as the input leaves them (digits and '-'): every text
\* over '1', '0', '-' up to MaxIdTextLen, and the texts of the scenarios.
IdTexts ==
    UNION { [1..n -> {"1", "0", "-"}] : n \in 0..MaxIdTextLen }
    \cup { <<"2", "-", "3">>,
           <<"1", "5", "0", "-", "2", "0", "0">>,
           <<"1", "0", "0", "-", "1", "0", "0">>,
           <<"0", "-", "5">>,
           <<"1", "-", "5">>,
           <<"5">>,
           <<"5", "-">>,
           <<"-", "5">>,
           <<"-", "-", "5">>,
           <<"1", "-", "-", "5">> }

\* The view states the effect is run with: every id filter text with the
\* other fields at their defaults, and every sort and page with and without
\* a search text and an id filter.
EngineStates ==
    { [DefaultState EXCEPT !.idFilter = t] : t \in IdTexts }
    \cup
    [ searchQuery : { <<>>, <<"A">> },
      idFilter : { <<>>, <<"2", "-", "1", "0">> },
      sortField : {"null", "id", "title"},
      sortOrder : {"asc", "desc"},
      page : 1..MaxEnginePage ]

EngineInit ==
    /\ pc = "engine"
    /\ storage = NoItem
    /\ params = NoParams
    /\ state \in EngineStates
    /\ data \in EngineRecords
    /\ filteredData = data
    /\ aliased = TRUE
    /\ loading = FALSE
    /\ error = ""
    /\ rendered = NoView
    /\ last = Event("open", state)

\* The filter/sort effect (lines 82-114) runs on data and state, and the
\* table is rendered from what it hands to setFilteredData (lines 139-142).
ComputeView ==
    /\ pc = "engine"
    /\ pc' = "computed"
    /\ LET eff == FilterEffect(data, state) IN
       /\ data' = eff.data
       /\ filteredData' = eff.filtered
       /\ aliased' = eff.sameRef
       /\ rendered' = TableView(eff.filtered, state)
    /\ last' = Event("computeView", state)
    /\ UNCHANGED <<storage, params, state, loading, error>>

EngineNext == ComputeView

EngineSpec == EngineInit /\ [][EngineNext]_vars

Computed == pc = "computed"


\* ------------------------------------------- C12-C15: the engine's steps

Min(a, b) == IF a < b THEN a ELSE b

Dashes(t) == {i \in 1..Len(t) : t[i] = "-"}

AllDigits(s) == s # <<>> /\ \A i \in 1..Len(s) : IsDigit(s[i])

\* The value of a text of decimal digits.
RECURSIVE DecimalOf(_)
DecimalOf(s) ==
    IF s = <<>> THEN 0
    ELSE 10 * DecimalOf(SubSeq(s, 1, Len(s) - 1)) + DigitValue(s[Len(s)])

ClampOf(n) == Max(IdFilterMin, Min(IdFilterMax, n))

\* The text before the first '-', and the text between the first '-' and
\* the next one (or the end).
FirstDash(t) == CHOOSE i \in Dashes(t) : \A j \in Dashes(t) : i <= j

FirstPiece(t) == SubSeq(t, 1, FirstDash(t) - 1)

AfterFirstDash(t) == SubSeq(t, FirstDash(t) + 1, Len(t))

SecondPiece(t) ==
    IF Dashes(AfterFirstDash(t)) = {} THEN AfterFirstDash(t)
    ELSE FirstPiece(AfterFirstDash(t))

\* digits '-' digits and nothing else.
SimpleRange(t) ==
    /\ Cardinality(Dashes(t)) = 1
    /\ AllDigits(FirstPiece(t))
    /\ AllDigits(AfterFirstDash(t))

LowOf(t) == ClampOf(DecimalOf(FirstPiece(t)))

HighOf(t) == ClampOf(DecimalOf(SecondPiece(t)))

Ids(list) == {list[i].id : i \in 1..Len(list)}

IdsWithin(list, lo, hi) == {id \in Ids(list) : lo <= id /\ id <= hi}

Txt150to200 == <<"1", "5", "0", "-", "2", "0", "0">>

Txt100to100 == <<"1", "0", "0", "-", "1", "0", "0">>

\* C12: an id filter whose two bounds parse and whose clamped first bound
\* is greater than its clamped second bound leaves no record, whatever the
\* record list, so the rows are empty on every page.
C12_ReversedBoundsEmpty ==
    (Computed /\ SimpleRange(state.idFilter)
              /\ LowOf(state.idFilter) > HighOf(state.idFilter)) =>
        /\ filteredData = <<>>
        /\ rendered.rows = <<>>
        /\ \A p \in 1..MaxEnginePage :
              currentData(filteredData, [state EXCEPT !.page = p]) = <<>>

C12_Witness ==
    /\ Computed
    /\ state.idFilter = <<"1", "0", "-", "1">>
    /\ Len(data) = NumPosts
    /\ filteredData = <<>>

\* C13: each bound is clamped into [1,100] on its own and the filtered set
\* is the records with clampedLow <= id <= clampedHigh: "150-200" filters
\* as "100-100" (nothing of ids 1..3), "0-5" as "1-5".
C13_BoundsClamped ==
    (Computed /\ state.searchQuery = <<>>) =>
        /\ SimpleRange(state.idFilter) =>
              /\ Ids(filteredData)
                    = IdsWithin(data, LowOf(state.idFilter), HighOf(state.idFilter))
              /\ Len(filteredData) = Cardinality(Ids(filteredData))
              /\ state.sortField = "null" =>
                    filteredData = SelectSeq(data, LAMBDA r :
                        /\ LowOf(state.idFilter) <= r.id
                        /\ r.id <= HighOf(state.idFilter))
        /\ state.idFilter = Txt150to200 =>
              /\ Ids(filteredData) = Ids(data) \cap {100}
              /\ filteredData
                    = FilterEffect(data, [state EXCEPT !.idFilter = Txt100to100]).filtered
              /\ data = SmallPosts => filteredData = <<>>
        /\ state.idFilter = <<"0", "-", "5">> =>
              /\ Ids(filteredData) = Ids(data) \cap 1..5
              /\ filteredData
                    = FilterEffect(data, [state EXCEPT !.idFilter = <<"1", "-", "5">>]).filtered

C13_Witness ==
    /\ Computed
    /\ state.idFilter = Txt150to200
    /\ data = EdgePosts
    /\ Ids(filteredData) = {100}

\* C14 as stated: the text is cut in two at its first '-'; the filter is
\* applied exactly when both halves parse as integers, the second half of
\* "1--5" being "-5", which clamps to 1.
C14_SplitAtFirstDash ==
    (Computed /\ state.searchQuery = <<>>) =>
        IF Dashes(state.idFilter) # {}
           /\ ~ParseInt(FirstPiece(state.idFilter)).nan
           /\ ~ParseInt(AfterFirstDash(state.idFilter)).nan
        THEN Ids(filteredData)
                = IdsWithin(data,
                            Clamp(ParseInt(FirstPiece(state.idFilter))).n,
                            Clamp(ParseInt(AfterFirstDash(state.idFilter))).n)
        ELSE Ids(filteredData) = Ids(data)

\* C14 amended: the text is cut at every '-' and the first two pieces are
\* the bounds; the filter is applied exactly when both of them are numbers.
\* For "", "5", "5-", "-5", "--5" and "1--5" (whose second piece is the
\* empty text between the two dashes) no record is excluded.
PiecesParse(t) ==
    /\ Dashes(t) # {}
    /\ AllDigits(FirstPiece(t))
    /\ AllDigits(SecondPiece(t))

C14_SplitAtEveryDash ==
    (Computed /\ state.searchQuery = <<>>) =>
        /\ IF PiecesParse(state.idFilter)
           THEN Ids(filteredData)
                   = IdsWithin(data, LowOf(state.idFilter), HighOf(state.idFilter))
           ELSE Ids(filteredData) = Ids(data) /\ Len(filteredData) = Len(data)
        /\ state.idFilter \in { <<>>, <<"5">>, <<"5", "-">>, <<"-", "5">>,
                                <<"-", "-", "5">>, <<"1", "-", "-", "5">> }
              => filteredData = data

C14_Witness ==
    /\ Computed
    /\ state.idFilter = <<"1", "-", "-", "5">>
    /\ Len(data) = NumPosts
    /\ filteredData = data

\* C15: the rows are the elements of the filtered and sorted list at the
\* zero-based offsets (page-1)*pageSize .. page*pageSize - 1 that exist:
\* of 20 records, page 3 shows the 4 at offsets 16..19, and a page beyond
\* the last shows none.
C15_SliceOfPage ==
    Computed =>
        LET from == (state.page - 1) * itemsPerPage
            count == Max(0, Min(itemsPerPage, Len(filteredData) - from))
        IN /\ Len(rendered.rows) = count
           /\ \A i \in 1..count : rendered.rows[i] = filteredData[from + i]
           /\ (Len(filteredData) = 20 /\ state.page = 3) =>
                 /\ Len(rendered.rows) = 4
                 /\ rendered.rows[1] = filteredData[17]
                 /\ rendered.rows[4] = filteredData[20]
           /\ state.page > Ceil(Len(filteredData), itemsPerPage) =>
                 rendered.rows = <<>>

C15_Witness ==
    /\ Computed
    /\ Len(filteredData) = 20
    /\ state.page = 3
    /\ Len(rendered.rows) = 4


\* ------------------------------------------------------- C16: stable sort

FieldEqual(a, b, field) == ~Less(a, b, field) /\ ~Less(b, a, field)

PositionIn(list, r) == CHOOSE k \in 1..Len(list) : list[k] = r

\* Adjacent records are in the order of the sort field and direction.
SortedBy(list, field, order) ==
    \A i \in 1..(Len(list) - 1) :
        IF order = "asc" THEN ~Less(list[i + 1], list[i], field)
        ELSE ~Less(list[i], list[i + 1], field)

\* Records with equal field values are in the order they have in `origin`.
TiesAsIn(list, origin, field) ==
    \A i, j \in 1..Len(list) :
        (i < j /\ FieldEqual(list[i], list[j], field)) =>
            PositionIn(origin, list[i]) < PositionIn(origin, list[j])

\* C16: with a sort field set, the filtered records are in the order of
\* that field and direction, and records with equal field values keep the
\* order they have in the list as fetched.
C16_StableSortOfFetched ==
    (Ready /\ state.sortField # "null") =>
        /\ SortedBy(filteredData, state.sortField, state.sortOrder)
        /\ TiesAsIn(filteredData, AsFetched, state.sortField)


\* ----------------------------------------------------------- C17: fetch

\* The life of the fetch: mounting, the two outcomes, reloading (the retry),
\* and the events that need no text input.  The text inputs touch neither
\* loading nor error nor data and are left to Spec.
FetchNext ==
    \/ Mount
    \/ FetchSuccess
    \/ FetchFailure
    \/ ToggleSort
    \/ NextPage
    \/ PrevPage
    \/ Reload

\* The promise returned by fetch() settles: a pending fetch of a mounted
\* component is eventually resolved or rejected.
FetchSpec == Init /\ [][FetchNext]_vars /\ WF_vars(FetchSuccess \/ FetchFailure)

HttpFailure == [name |-> "Error", message |-> "HTTP Error: 500 Internal Server Error"]

NetworkFailure == [name |-> "TypeError", message |-> "Failed to fetch"]

\* C17: loading is true from the start until the fetch resolves and false
\* from then on; a pending fetch eventually ends, in a success (records in
\* data, no error) or in a failure (data empty, error message set); the
\* message for HTTP 500 carries status and text and is not the message for
\* a network failure.
C17_FetchResolves ==
    /\ []((pc = "start" \/ (pc = "mounted" /\ last.op = "mount")) => loading)
    /\ [](last.op = "fetchSuccess" =>
            /\ ~loading
            /\ error = ""
            /\ \E r \in FetchResults : SameRecords(r, data))
    /\ [](last.op = "fetchFailure" =>
            /\ ~loading
            /\ data = <<>>
            /\ error # ""
            /\ error \in {ErrorMessage(e) : e \in FetchFailures}
            /\ (error = NetworkMessage) = (error = ErrorMessage(NetworkFailure))
            /\ ErrorMessage(HttpFailure) = "HTTP Error: 500 Internal Server Error"
            /\ ErrorMessage(HttpFailure) # ErrorMessage(NetworkFailure))
    /\ [][(~loading /\ pc' # "start") => ~loading']_vars
    /\ ((pc = "mounted" /\ loading) ~> (pc # "mounted" \/ ~loading))

C17_Witness ==
    /\ last.op = "fetchFailure"
    /\ ~loading
    /\ error = "HTTP Error: 500 Internal Server Error"
    /\ data = <<>>



\* ---------------------------------------------------------------- C18
\* C18: the query parameters are write-only.  The view state a mount starts
\* with is the one restored from localStorage (or the defaults) whatever the
\* query parameters of the location are, and once the mount has persisted,
\* the query parameters are the projection of that restored view state.
C18_ParamsWriteOnly ==
    [][(pc = "start" /\ pc' = "mounted") =>
           /\ \A q \in InitialParams \cup {params} :
                  InitialState(storage, q) = InitialState(storage, NoParams)
           /\ state' = InitialState(storage, NoParams).value
           /\ state' = loadFromLocalStorage(storage, DefaultState).value
           /\ params' = SearchParamsOf(state')]_vars

\* A mount has restored a stored view state other than the defaults and
\* written its projection to the query parameters.
C18_Witness ==
    /\ pc = "mounted"
    /\ last.op = "mount"
    /\ state # DefaultState
    /\ state.sortField # "null"
    /\ params = SearchParamsOf(state)

\* ---------------------------------------------------------------- C19
\* C19: toggleSort changes only sortField and sortOrder: page, searchQuery
\* and idFilter are unchanged, and so is the page count, since sorting does
\* not change the number of filtered records.
C19_ToggleSortFrame ==
    [][last'.op = "toggleSort" =>
           /\ state'.page = state.page
           /\ state'.searchQuery = state.searchQuery
           /\ state'.idFilter = state.idFilter
           /\ Len(filteredData') = Len(filteredData)
           /\ Ceil(Len(filteredData'), itemsPerPage)
                  = Ceil(Len(filteredData), itemsPerPage)]_vars

\* A sort toggled on a page after the first, under an id filter.
C19_Witness ==
    /\ pc = "mounted"
    /\ last.op = "toggleSort"
    /\ state.page > 1
    /\ last.page = state.page
    /\ Len(filteredData) > itemsPerPage

\* ---------------------------------------------------------------- C20
\* The sortField a mount would start with.
StoredSortField == loadFromLocalStorage(storage, DefaultState).value.sortField

\* The sort is set: in the view state of a loaded page, and in the stored
\* state a page that is not loaded would start with.
SortChosen ==
    IF pc = "start" THEN StoredSortField # "null" ELSE state.sortField # "null"

\* C20: no transition sets sortField back to none.  Once a sort is set it
\* stays set in every later state, across reloads as well, since the stored
\* state carries it: a step to a loaded page leaves a sortField in the view
\* state, and a step that unloads the page leaves one in localStorage.
C20_SortFieldNeverCleared ==
    [][SortChosen =>
           IF pc' = "start"
           THEN storage' = storage /\ StoredSortField # "null"
           ELSE state'.sortField # "null"]_vars

====
